---- MODULE Spec2Model ----
(***************************************************************************)
(* Model of the mail-automation repository.                                *)
(*                                                                         *)
(*   Spec          the command-line campaign, send_cv.py                   *)
(*                 (EmailAutomation.run with its progress file), run       *)
(*                 one or more times against the same recipients file.     *)
(*   SpecResolver  the recipient ingestion of app.py                       *)
(*                 (parse_text_form_recipients, load_recipients_from_csv,  *)
(*                 validate_email and the de-duplication of main).         *)
(*   SpecRenderer  the template renderer of app.py                         *)
(*                 (smart_format_template, called for the custom HTML      *)
(*                 template of a recipient and for the preview).           *)
(*   SpecConnect   the connection of app_new.py                            *)
(*                 (EmailSender.validate_credentials and connect_smtp).    *)
(*                                                                         *)
(* Strings that the code inspects character by character are sequences of  *)
(* one-character strings.                                                  *)
(***************************************************************************)
EXTENDS Integers, Sequences, FiniteSets, TLC

VARIABLES
    \* ---- send_cv.py: the environment of a run
    min_delay,        \* config['min_delay']
    max_delay,        \* config['max_delay']
    max_emails,       \* config['max_emails_per_day']
    num_recipients,   \* number of rows of recipients.csv
    progress_file,    \* email_progress.txt: <<>> (absent) or <<record>>
    \* ---- send_cv.py: the state of one EmailAutomation.run
    pc,               \* position in run()
    run_no,           \* which execution of the script this is
    server,           \* self.server: "None", "open", "broken" or "closed"
    sent_count,       \* self.sent_count
    failed_count,     \* self.failed_count
    start_index,      \* local start_index of run()
    i,                \* loop index of run()
    success,          \* local success of run(): result of the last send_email
    delay,            \* local delay of run(): the last pacing delay drawn
    \* ---- history of the runs (observations, never read by the code)
    sleep_count,      \* pacing sleeps performed in this run
    outcome,          \* how this run left run(): "running", "completed", ...
    confirmed,        \* the operator answered 'y' at the daily-limit prompt
    resumed,          \* this run continues from the index found in the file
    broke_at,         \* loop index at which the session broke, -1 if it did not
    delivered_now,    \* indices whose message the server accepted in this run
    delivered_before, \* indices whose message the server accepted in earlier runs
    prev_outcome,     \* outcome of the previous run
    persistence_error, \* reading or writing email_progress.txt raised in this run
    \* ---- app.py: recipient ingestion
    rpc,              \* position in the ingestion
    source_kind,      \* "text" or "csv"
    text_lines,       \* the pasted text, split at '\n'
    csv_rows,         \* the uploaded CSV, one sequence of cells per row
    selected_recipients, \* st.session_state['selected_recipients']
    recipients,       \* result list of the parsing function
    unique_recipients, \* unique_recipients of main
    slider_delay,     \* min_delay and max_delay of the timing sliders
    attempted,        \* recipients for which the send loop called send_email
    \* ---- app.py: template rendering
    tpc,              \* position in the rendering
    html_template,    \* template_config['html'] / custom_html_template
    render_for,       \* name, company of the recipient and config['email']
    kwargs,           \* the keyword arguments of smart_format_template
    html_content,     \* what smart_format_template returned
    \* ---- app_new.py: EmailSender.connect_smtp
    cpc,              \* position in connect_smtp
    config_email,     \* config['email']
    config_password,  \* config['app_password']
    smtp,             \* self.server: "None", "open" or "closed"
    login_attempts,   \* calls of self.server.login in this connect_smtp
    first_error,      \* how method 1 failed: "none", "auth" or "other"
    authenticated,    \* a login of this connect_smtp succeeded
    returned,         \* return value of connect_smtp: "none", "True", "False"
    calls,            \* how often connect_smtp has been called
    \* ---- email_automation.py: RecipientManager
    recipients_file,  \* the records of recipients.json
    manager_call,     \* the last method called on the manager
    manager_result,   \* what it returned: "none", "True" or "False"
    \* ---- email_automation.py: EmailSender
    sender_config,    \* self.config: email, password, provider
    sender_server,    \* self.server: "None", "unauthenticated", "authenticated"
    session_ok,       \* connect_smtp returned True and no disconnect since
    sender_call,      \* the last method called on the sender
    sender_result,    \* what it returned: "none", "True" or "False"
    transmitted,      \* the last send_email handed a message to the server
    \* ---- email_automation.py: the Start Sending handler
    tab_pc,           \* position in the handler
    app_recipients,   \* self.recipients
    num_emails,       \* the "Number of emails to send" slider
    config_delay,     \* <<self.config.min_delay, self.config.max_delay>>
    selected_template,\* the text that is formatted for every recipient
    tab_i,            \* the i of the for statement
    tab_sent_count,   \* sent_count
    tab_failed_count, \* failed_count
    counted_sent,     \* the i for which sent_count was incremented
    counted_failed,   \* the i of every increment of failed_count, in order
    transmitted_to,   \* the i whose message the server accepted
    render_failed,    \* the i whose format call raised
    slept_after,      \* the i after which time.sleep was called
    unsaved           \* the i whose save_recipients returned False

campaign_vars == <<min_delay, max_delay, max_emails, num_recipients, progress_file,
                   pc, run_no, server, sent_count, failed_count, start_index, i,
                   success, delay, sleep_count, outcome, confirmed, resumed,
                   broke_at, delivered_now, delivered_before, prev_outcome,
                   persistence_error>>

resolver_vars == <<rpc, source_kind, text_lines, csv_rows, selected_recipients,
                   recipients, unique_recipients, slider_delay, attempted>>

renderer_vars == <<tpc, html_template, render_for, kwargs, html_content>>

connect_vars == <<cpc, config_email, config_password, smtp, login_attempts,
                  first_error, authenticated, returned, calls>>

store_vars == <<recipients_file, manager_call, manager_result>>

sender_vars == <<sender_config, sender_server, session_ok, sender_call,
                 sender_result, transmitted>>

tab_vars == <<tab_pc, app_recipients, num_emails, config_delay, selected_template,
              tab_i, tab_sent_count, tab_failed_count, counted_sent,
              counted_failed, transmitted_to, render_failed, slept_after,
              unsaved>>

app_vars == <<store_vars, sender_vars, tab_vars>>

vars == <<campaign_vars, resolver_vars, renderer_vars, connect_vars, app_vars>>

(***************************************************************************)
(* Bounds of the model.                                                    *)
(***************************************************************************)
MaxRecipients == 5
MaxDelay == 2
SmallLimit == 3
MaxLines == 3
MaxRows == 2
MaxSegments == 2
MaxCalls == 2

\* Program constants.
DefaultMaxEmails == 30
SaveEvery == 5
PasswordLength == 16

(***************************************************************************)
(* send_cv.py: the progress file.                                          *)
(***************************************************************************)
NoFile == <<>>

\* save_progress writes the index it is given and the two counters of self.
save_progress(index, sent, failed) ==
    << [last_sent_index |-> index, sent_count |-> sent, failed_count |-> failed] >>

\* load_progress returns the index of the file, 0 without a file; the
\* counters of the file are not read.
load_progress(file) ==
    IF file = NoFile THEN 0 ELSE file[1].last_sent_index

(***************************************************************************)
(* send_cv.py: EmailAutomation.run, one action per step of the method.     *)
(***************************************************************************)
ResolverIdle ==
    /\ rpc = "idle"
    /\ source_kind = "text"
    /\ text_lines = <<>>
    /\ csv_rows = <<>>
    /\ selected_recipients = <<>>
    /\ recipients = <<>>
    /\ unique_recipients = <<>>
    /\ slider_delay = <<1, 1>>
    /\ attempted = <<>>

RendererIdle ==
    /\ tpc = "idle"
    /\ html_template = <<>>
    /\ render_for = <<>>
    /\ kwargs = <<>>
    /\ html_content = <<>>

StoreIdle ==
    /\ recipients_file = <<>>
    /\ manager_call = "none"
    /\ manager_result = "none"

SenderIdle ==
    /\ sender_config = <<>>
    /\ sender_server = "None"
    /\ session_ok = FALSE
    /\ sender_call = "none"
    /\ sender_result = "none"
    /\ transmitted = FALSE

TabIdle ==
    /\ tab_pc = "idle"
    /\ app_recipients = <<>>
    /\ num_emails = 0
    /\ config_delay = <<1, 1>>
    /\ selected_template = <<>>
    /\ tab_i = 0
    /\ tab_sent_count = 0
    /\ tab_failed_count = 0
    /\ counted_sent = {}
    /\ counted_failed = <<>>
    /\ transmitted_to = {}
    /\ render_failed = {}
    /\ slept_after = {}
    /\ unsaved = {}

AppIdle == StoreIdle /\ SenderIdle /\ TabIdle

ConnectIdle ==
    /\ cpc = "idle"
    /\ config_email = <<>>
    /\ config_password = <<>>
    /\ smtp = "None"
    /\ login_attempts = 0
    /\ first_error = "none"
    /\ authenticated = FALSE
    /\ returned = "none"
    /\ calls = 0

FreshProcess ==
    /\ pc = "start"
    /\ server = "None"
    /\ sent_count = 0
    /\ failed_count = 0
    /\ start_index = 0
    /\ i = 0
    /\ success = FALSE
    /\ delay = 0
    /\ sleep_count = 0
    /\ outcome = "running"
    /\ confirmed = FALSE
    /\ resumed = FALSE
    /\ broke_at = -1
    /\ delivered_now = {}
    /\ persistence_error = FALSE

Init ==
    /\ min_delay \in 1..MaxDelay
    /\ max_delay \in 1..MaxDelay
    /\ max_emails \in {SmallLimit, DefaultMaxEmails}
    /\ num_recipients \in 0..MaxRecipients
    /\ progress_file = NoFile
    /\ run_no = 1
    /\ delivered_before = {}
    /\ prev_outcome = "none"
    /\ FreshProcess
    /\ ResolverIdle
    /\ RendererIdle
    /\ ConnectIdle
    /\ AppIdle

\* run, lines 280-285: the index to start at, and the operator's choice to
\* continue from it.  load_progress is called outside every try statement:
\* when the file exists and open or int raises, the exception leaves run.
LoadProgress ==
    /\ pc = "start"
    /\ \/ /\ \E response \in {"y", "n"} :
                LET found == load_progress(progress_file) IN
                /\ found > 0 \/ response = "n"
                /\ start_index' = IF found > 0 /\ response = "y" THEN found ELSE 0
                /\ resumed' = (found > 0 /\ response = "y")
          /\ pc' = "connect"
          /\ UNCHANGED <<outcome, persistence_error>>
       \/ /\ progress_file # NoFile
          /\ persistence_error' = TRUE
          /\ outcome' = "crashed"
          /\ pc' = "done"
          /\ UNCHANGED <<start_index, resumed>>
    /\ UNCHANGED <<min_delay, max_delay, max_emails, num_recipients, progress_file,
                   run_no, server, sent_count, failed_count, i, success, delay,
                   sleep_count, confirmed, broke_at, delivered_now,
                   delivered_before, prev_outcome>>
    /\ UNCHANGED <<resolver_vars, renderer_vars, connect_vars, app_vars>>

\* connect_smtp, lines 178-188, and run, lines 287-289.  smtplib.SMTP may
\* raise before self.server is assigned; starttls or login may raise after.
ConnectSmtp ==
    /\ pc = "connect"
    /\ \E result \in {"no_connection", "login_failed", "ok"} :
          /\ server' = IF result = "no_connection" THEN "None" ELSE "open"
          /\ pc' = IF result = "ok" THEN "load" ELSE "done"
          /\ outcome' = IF result = "ok" THEN outcome ELSE "connect_failed"
    /\ UNCHANGED <<min_delay, max_delay, max_emails, num_recipients, progress_file,
                   run_no, sent_count, failed_count, start_index, i, success, delay,
                   sleep_count, confirmed, resumed, broke_at, delivered_now,
                   delivered_before, prev_outcome>>
    /\ UNCHANGED <<persistence_error, resolver_vars, renderer_vars, connect_vars, app_vars>>

\* run, lines 291-295.
LoadRecipients ==
    /\ pc = "load"
    /\ pc' = IF num_recipients = 0 THEN "done" ELSE "limit"
    /\ outcome' = IF num_recipients = 0 THEN "no_recipients" ELSE outcome
    /\ UNCHANGED <<min_delay, max_delay, max_emails, num_recipients, progress_file,
                   run_no, server, sent_count, failed_count, start_index, i, success,
                   delay, sleep_count, confirmed, resumed, broke_at, delivered_now,
                   delivered_before, prev_outcome>>
    /\ UNCHANGED <<persistence_error, resolver_vars, renderer_vars, connect_vars, app_vars>>

\* The for statement of line 307 over recipients[start_index:].
EnterLoop == IF start_index < num_recipients THEN "send" ELSE "summary"

\* A daily-limit check that warns but never asks.
CheckDailyLimitNoPrompt ==
    /\ pc = "limit"
    /\ pc' = EnterLoop
    /\ i' = start_index
    /\ UNCHANGED <<min_delay, max_delay, max_emails, num_recipients, progress_file,
                   run_no, server, sent_count, failed_count, start_index, success,
                   delay, sleep_count, outcome, confirmed, resumed, broke_at,
                   delivered_now, delivered_before, prev_outcome>>
    /\ UNCHANGED <<persistence_error, resolver_vars, renderer_vars, connect_vars, app_vars>>

\* run, lines 297-303, and the entry of the loop of line 307.
CheckDailyLimit ==
    /\ pc = "limit"
    /\ \E response \in {"y", "n"} :
          /\ num_recipients > max_emails \/ response = "n"
          /\ IF num_recipients > max_emails /\ response # "y"
             THEN /\ pc' = "done"
                  /\ outcome' = "refused"
                  /\ UNCHANGED <<i, confirmed>>
             ELSE /\ pc' = EnterLoop
                  /\ i' = start_index
                  /\ confirmed' = (num_recipients > max_emails)
                  /\ UNCHANGED outcome
    /\ UNCHANGED <<min_delay, max_delay, max_emails, num_recipients, progress_file,
                   run_no, server, sent_count, failed_count, start_index, success,
                   delay, sleep_count, resumed, broke_at, delivered_now,
                   delivered_before, prev_outcome>>
    /\ UNCHANGED <<persistence_error, resolver_vars, renderer_vars, connect_vars, app_vars>>

\* What the server may do with one message: on a broken session every
\* send_message raises.
SendResults == IF server = "broken" THEN {"disconnected"}
               ELSE {"accepted", "rejected", "disconnected"}

\* A send_email that lets the exception of a failed transmission escape to
\* the handler of line 337 instead of counting it.
SendEmailUncaught ==
    /\ pc = "send"
    /\ \E result \in SendResults :
          /\ sent_count' = IF result = "accepted" THEN sent_count + 1 ELSE sent_count
          /\ success' = (result = "accepted")
          /\ delivered_now' = IF result = "accepted" THEN delivered_now \cup {i}
                              ELSE delivered_now
          /\ server' = IF result = "disconnected" THEN "broken" ELSE server
          /\ broke_at' = IF result = "disconnected" /\ server # "broken" THEN i
                         ELSE broke_at
          /\ pc' = IF result = "accepted" THEN "save" ELSE "finally"
          /\ outcome' = IF result = "accepted" THEN outcome ELSE "error"
    /\ UNCHANGED <<min_delay, max_delay, max_emails, num_recipients, progress_file,
                   run_no, failed_count, start_index, i, delay, sleep_count,
                   confirmed, resumed, delivered_before, prev_outcome>>
    /\ UNCHANGED <<persistence_error, resolver_vars, renderer_vars, connect_vars, app_vars>>

\* send_email, lines 190-239, called at line 311: every exception of the
\* transmission is caught and counted as a failure.
SendEmail ==
    /\ pc = "send"
    /\ \E result \in SendResults :
          /\ sent_count' = IF result = "accepted" THEN sent_count + 1 ELSE sent_count
          /\ failed_count' = IF result = "accepted" THEN failed_count ELSE failed_count + 1
          /\ success' = (result = "accepted")
          /\ delivered_now' = IF result = "accepted" THEN delivered_now \cup {i}
                              ELSE delivered_now
          /\ server' = IF result = "disconnected" THEN "broken" ELSE server
          /\ broke_at' = IF result = "disconnected" /\ server # "broken" THEN i
                         ELSE broke_at
    /\ pc' = "save"
    /\ UNCHANGED <<min_delay, max_delay, max_emails, num_recipients, progress_file,
                   run_no, start_index, i, delay, sleep_count, outcome, confirmed,
                   resumed, delivered_before, prev_outcome>>
    /\ UNCHANGED <<persistence_error, resolver_vars, renderer_vars, connect_vars, app_vars>>

\* A loop that never saves its progress.
SaveNever ==
    /\ pc = "save"
    /\ pc' = "delay"
    /\ UNCHANGED <<progress_file, outcome, persistence_error>>
    /\ UNCHANGED <<min_delay, max_delay, max_emails, num_recipients, run_no, server,
                   sent_count, failed_count, start_index, i, success, delay,
                   sleep_count, confirmed, resumed, broke_at, delivered_now,
                   delivered_before, prev_outcome>>
    /\ UNCHANGED <<resolver_vars, renderer_vars, connect_vars, app_vars>>

\* run, lines 313-315.  save_progress has no handler of its own: when open or
\* write raises, the exception is caught at line 337 and the loop is left.
SaveEveryFive ==
    /\ pc = "save"
    /\ \/ /\ progress_file' = IF (i + 1) % SaveEvery = 0
                               THEN save_progress(i + 1, sent_count, failed_count)
                               ELSE progress_file
          /\ pc' = "delay"
          /\ UNCHANGED <<outcome, persistence_error>>
       \/ /\ (i + 1) % SaveEvery = 0
          /\ persistence_error' = TRUE
          /\ outcome' = "error"
          /\ pc' = "finally"
          /\ UNCHANGED progress_file
    /\ UNCHANGED <<min_delay, max_delay, max_emails, num_recipients, run_no, server,
                   sent_count, failed_count, start_index, i, success, delay,
                   sleep_count, confirmed, resumed, broke_at, delivered_now,
                   delivered_before, prev_outcome>>
    /\ UNCHANGED <<resolver_vars, renderer_vars, connect_vars, app_vars>>

\* A randint whose upper end is exclusive of nothing: one second too long.
randint_one_more(a, b) == a..(b + 1)

\* random.randint(a, b): the values it may return; it raises ValueError on an
\* empty range.
randint(a, b) == a..b

\* run, lines 317-324, and the step of the for statement to the next
\* recipient.  A ValueError of randint is caught at line 337.
RandomDelay ==
    /\ pc = "delay"
    /\ IF i < num_recipients - 1
       THEN \/ /\ randint(min_delay, max_delay) = {}
               /\ pc' = "finally"
               /\ outcome' = "error"
               /\ UNCHANGED <<delay, sleep_count, i>>
            \/ /\ \E d \in randint(min_delay, max_delay) : delay' = d
               /\ sleep_count' = sleep_count + 1
               /\ i' = i + 1
               /\ pc' = "send"
               /\ UNCHANGED outcome
       ELSE /\ pc' = "summary"
            /\ UNCHANGED <<delay, sleep_count, i, outcome>>
    /\ UNCHANGED <<min_delay, max_delay, max_emails, num_recipients, progress_file,
                   run_no, server, sent_count, failed_count, start_index, success,
                   confirmed, resumed, broke_at, delivered_now, delivered_before,
                   prev_outcome>>
    /\ UNCHANGED <<persistence_error, resolver_vars, renderer_vars, connect_vars, app_vars>>

\* run, lines 326-332: the summary is logged and the progress file removed.
FinalSummary ==
    /\ pc = "summary"
    /\ progress_file' = NoFile
    /\ outcome' = "completed"
    /\ pc' = "finally"
    /\ UNCHANGED <<min_delay, max_delay, max_emails, num_recipients, run_no, server,
                   sent_count, failed_count, start_index, i, success, delay,
                   sleep_count, confirmed, resumed, broke_at, delivered_now,
                   delivered_before, prev_outcome>>
    /\ UNCHANGED <<persistence_error, resolver_vars, renderer_vars, connect_vars, app_vars>>

\* An interrupt handler that saves the index after the current recipient.
KeyboardInterruptSavesNext ==
    /\ pc \in {"send", "save", "delay", "summary"}
    /\ progress_file' = save_progress(i + 1, sent_count, failed_count)
    /\ outcome' = "interrupted"
    /\ pc' = "finally"
    /\ UNCHANGED <<min_delay, max_delay, max_emails, num_recipients, run_no, server,
                   sent_count, failed_count, start_index, i, success, delay,
                   sleep_count, confirmed, resumed, broke_at, delivered_now,
                   delivered_before, prev_outcome>>
    /\ UNCHANGED <<persistence_error, resolver_vars, renderer_vars, connect_vars, app_vars>>

\* run, lines 334-336: Ctrl-C anywhere in the try block.
KeyboardInterrupt ==
    /\ pc \in {"send", "save", "delay", "summary"}
    /\ progress_file' = save_progress(start_index + sent_count, sent_count, failed_count)
    /\ outcome' = "interrupted"
    /\ pc' = "finally"
    /\ UNCHANGED <<min_delay, max_delay, max_emails, num_recipients, run_no, server,
                   sent_count, failed_count, start_index, i, success, delay,
                   sleep_count, confirmed, resumed, broke_at, delivered_now,
                   delivered_before, prev_outcome>>
    /\ UNCHANGED <<persistence_error, resolver_vars, renderer_vars, connect_vars, app_vars>>

\* A finally clause that also removes the progress file.
FinallyClears ==
    /\ pc = "finally"
    /\ server' = IF server # "None" THEN "closed" ELSE server
    /\ progress_file' = NoFile
    /\ pc' = "done"
    /\ UNCHANGED <<min_delay, max_delay, max_emails, num_recipients,
                   run_no, sent_count, failed_count, start_index, i, success, delay,
                   sleep_count, outcome, confirmed, resumed, broke_at, delivered_now,
                   delivered_before, prev_outcome>>
    /\ UNCHANGED <<persistence_error, resolver_vars, renderer_vars, connect_vars, app_vars>>

\* run, lines 339-342.
Finally ==
    /\ pc = "finally"
    /\ server' = IF server # "None" THEN "closed" ELSE server
    /\ pc' = "done"
    /\ UNCHANGED <<min_delay, max_delay, max_emails, num_recipients, progress_file,
                   run_no, sent_count, failed_count, start_index, i, success, delay,
                   sleep_count, outcome, confirmed, resumed, broke_at, delivered_now,
                   delivered_before, prev_outcome>>
    /\ UNCHANGED <<persistence_error, resolver_vars, renderer_vars, connect_vars, app_vars>>

\* main, lines 344-357: the script is started a second time; __init__, lines
\* 32-37, gives the new process fresh counters and no server.  The progress file
\* and the recipients file are what the last run left.
StartAgain ==
    /\ pc = "done"
    /\ run_no = 1
    /\ run_no' = run_no + 1
    /\ prev_outcome' = outcome
    /\ delivered_before' = delivered_before \cup delivered_now
    /\ pc' = "start"
    /\ server' = "None"
    /\ sent_count' = 0
    /\ failed_count' = 0
    /\ start_index' = 0
    /\ i' = 0
    /\ success' = FALSE
    /\ delay' = 0
    /\ sleep_count' = 0
    /\ outcome' = "running"
    /\ confirmed' = FALSE
    /\ resumed' = FALSE
    /\ broke_at' = -1
    /\ delivered_now' = {}
    /\ persistence_error' = FALSE
    /\ UNCHANGED <<min_delay, max_delay, max_emails, num_recipients, progress_file>>
    /\ UNCHANGED <<resolver_vars, renderer_vars, connect_vars, app_vars>>

(***************************************************************************)
(* Character strings: the string methods and regular expressions that      *)
(* app.py applies to recipient input.                                      *)
(***************************************************************************)
LowerLetters == <<"a","b","c","d","e","f","g","h","i","j","k","l","m",
                  "n","o","p","q","r","s","t","u","v","w","x","y","z">>
UpperLetters == <<"A","B","C","D","E","F","G","H","I","J","K","L","M",
                  "N","O","P","Q","R","S","T","U","V","W","X","Y","Z">>
Range(f) == {f[k] : k \in DOMAIN f}
Letters == Range(LowerLetters) \cup Range(UpperLetters)
Digits == {"0","1","2","3","4","5","6","7","8","9"}
Whitespace == {" ", "\t", "\r"}

\* The character classes of the regular expression of line 605.
LocalChars == Letters \cup Digits \cup {".", "_", "%", "+", "-"}
DomainChars == Letters \cup Digits \cup {".", "-"}
TldChars == Letters \cup {"|"}
\* \w, which decides \b.
WordChars == Letters \cup Digits \cup {"_"}

MinOf(S) == CHOOSE x \in S : \A y \in S : x <= y
MaxOf(S) == CHOOSE x \in S : \A y \in S : x >= y

\* str.lower
lower(s) ==
    [k \in 1..Len(s) |->
        IF s[k] \in Range(UpperLetters)
        THEN LowerLetters[CHOOSE n \in 1..Len(UpperLetters) : UpperLetters[n] = s[k]]
        ELSE s[k]]

\* str.strip
strip(s) ==
    LET keep == {k \in 1..Len(s) : s[k] \notin Whitespace} IN
    IF keep = {} THEN <<>> ELSE SubSeq(s, MinOf(keep), MaxOf(keep))

\* c in s, for a character c
contains(s, c) == \E k \in 1..Len(s) : s[k] = c

\* str.find, 1-based; 0 when sub does not occur at or after from
find(s, sub, from) ==
    LET hits == {p \in from..(Len(s) - Len(sub) + 1) :
                    SubSeq(s, p, p + Len(sub) - 1) = sub} IN
    IF hits = {} THEN 0 ELSE MinOf(hits)

\* sub in s, for a string sub
occurs(sub, s) == find(s, sub, 1) > 0

\* s.replace(old, ''): every non-overlapping occurrence, from the left
RECURSIVE remove(_, _)
remove(s, old) ==
    IF old = <<>> THEN s
    ELSE LET p == find(s, old, 1) IN
         IF p = 0 THEN s
         ELSE SubSeq(s, 1, p - 1) \o remove(SubSeq(s, p + Len(old), Len(s)), old)

\* A name clean-up that leaves the separators in.
keep_separators(s) == s

\* re.sub(r'[,;]+', '', s)
remove_separators(s) == SelectSeq(s, LAMBDA c : c \notin {",", ";"})

\* A match object is <<>> (None) or <<text>>.
\* re.search(r'<([^>]+)>', line): group(1) of the leftmost match.
search_brackets(line) ==
    LET closing(p) == find(line, <<">">>, p + 1)
        starts == {p \in 1..Len(line) : line[p] = "<" /\ closing(p) >= p + 2} IN
    IF starts = {} THEN <<>>
    ELSE LET p == MinOf(starts) IN << SubSeq(line, p + 1, closing(p) - 1) >>

\* \b between positions k-1 and k
word_at(s, k) == k \in 1..Len(s) /\ s[k] \in WordChars
boundary(s, k) == word_at(s, k - 1) # word_at(s, k)

\* End of the longest run of characters of class from position p on; p - 1
\* when s[p] is not of the class.
run_end(s, p, class) ==
    LET stops == {k \in p..Len(s) : s[k] \notin class} IN
    IF stops = {} THEN Len(s) ELSE MinOf(stops) - 1

\* Where the match of line 605's expression that starts at p ends; 0 when
\* there is none.  The quantifiers are greedy: the domain is the longest that
\* leaves a dot and a top-level part of two or more characters ending at \b.
email_match_end(s, p) ==
    IF ~(p \in 1..Len(s) /\ s[p] \in LocalChars /\ boundary(s, p)) THEN 0
    ELSE LET at == run_end(s, p, LocalChars) + 1 IN
         IF ~(at <= Len(s) /\ s[at] = "@") THEN 0
         ELSE LET dom_end == run_end(s, at + 1, DomainChars)
                  tld_ends(d) == {e \in (d + 2)..run_end(s, d + 1, TldChars) :
                                     boundary(s, e + 1)}
                  dots == {d \in (at + 2)..dom_end :
                              s[d] = "." /\ tld_ends(d) # {}} IN
              IF dots = {} THEN 0 ELSE MaxOf(tld_ends(MaxOf(dots)))

\* re.search(r'\b[A-Za-z0-9._%+-]+@[A-Za-z0-9.-]+\.[A-Z|a-z]{2,}\b', line):
\* group(0) of the leftmost match.
search_email(line) ==
    LET starts == {p \in 1..Len(line) : email_match_end(line, p) > 0} IN
    IF starts = {} THEN <<>>
    ELSE LET p == MinOf(starts) IN << SubSeq(line, p, email_match_end(line, p)) >>

(***************************************************************************)
(* app.py: validate_email, parse_text_form_recipients,                     *)
(* load_recipients_from_csv and the de-duplication of main.                *)
(***************************************************************************)
\* email.split('@')[1]: the text between the first '@' and the next one.
after_first_at(email) ==
    LET first == find(email, <<"@">>, 1)
        next == find(email, <<"@">>, first + 1) IN
    SubSeq(email, first + 1, IF next = 0 THEN Len(email) ELSE next - 1)

validate_email(email) ==
    contains(email, "@") /\ contains(after_first_at(email), ".")

Recipient(email, name, company) ==
    [email |-> email, name |-> name, company |-> company]

\* parse_text_form_recipients, lines 583-618: the records one line adds.
parse_line(raw) ==
    LET line == strip(raw) IN
    IF line = <<>> THEN <<>>
    ELSE LET bracketed == contains(line, "<") /\ contains(line, ">")
             m == IF bracketed THEN search_brackets(line) ELSE search_email(line)
             email == IF m = <<>> THEN <<>>
                      ELSE IF bracketed THEN strip(m[1]) ELSE m[1]
             name == IF m = <<>> THEN <<>>
                     ELSE IF bracketed
                          THEN strip(remove(line, <<"<">> \o email \o <<">">>))
                          ELSE strip(remove_separators(strip(remove(line, email)))) IN
         IF email # <<>> /\ validate_email(email)
         THEN << Recipient(email, name, <<>>) >>
         ELSE <<>>

RECURSIVE parse_lines(_)
parse_lines(lines) ==
    IF lines = <<>> THEN <<>>
    ELSE parse_line(Head(lines)) \o parse_lines(Tail(lines))

\* parse_text_form_recipients, lines 578-620; lines is text.strip().split('\n').
parse_text_form_recipients(lines) == parse_lines(lines)

\* The first line of the CSV text, as csv.reader splits it into cells.
RECURSIVE join_cells(_)
join_cells(row) ==
    IF row = <<>> THEN <<>>
    ELSE IF Len(row) = 1 THEN row[1]
    ELSE row[1] \o <<",">> \o join_cells(Tail(row))

\* Line 633: 'email' in sample.lower().splitlines()[0]
has_header(rows) == occurs(<<"e","m","a","i","l">>, lower(join_cells(rows[1])))

\* a or b, for strings
first_truthy(a, b) == IF a # <<>> THEN a ELSE b

\* The first cell that contains '@' (lines 643-646 and 662-665), '' if none.
first_with_at(cells) ==
    LET hits == {k \in 1..Len(cells) : contains(cells[k], "@")} IN
    IF hits = {} THEN <<>> ELSE cells[MinOf(hits)]

\* Lines 636-649: the records one row adds under the header fieldnames.
\* row.get(key) of csv.DictReader: the cell under the last column named key;
\* None, here <<>>, when there is no such column or the row is too short.
\* Cells beyond the header are not looked at.
parse_header_row(fieldnames, row) ==
    LET get(key) ==
            LET cols == {k \in 1..Len(fieldnames) : fieldnames[k] = key} IN
            IF cols = {} \/ MaxOf(cols) > Len(row) THEN <<>> ELSE row[MaxOf(cols)]
        values == SubSeq(row, 1, IF Len(row) < Len(fieldnames) THEN Len(row)
                                  ELSE Len(fieldnames))
        named == strip(first_truthy(get(<<"e","m","a","i","l">>),
                                    get(<<"E","m","a","i","l">>)))
        name == strip(first_truthy(get(<<"n","a","m","e">>), get(<<"N","a","m","e">>)))
        company == strip(first_truthy(get(<<"c","o","m","p","a","n","y">>),
                                      get(<<"C","o","m","p","a","n","y">>)))
        email == IF named # <<>> THEN named ELSE strip(first_with_at(values)) IN
    IF row = <<>> THEN <<>>
    ELSE IF email # <<>> /\ validate_email(email)
    THEN << Recipient(email, name, company) >>
    ELSE <<>>

\* Lines 653-668: the records one row adds when there is no header.
parse_plain_row(raw) ==
    LET row == [k \in 1..Len(raw) |-> strip(raw[k])]
        first == IF Len(row) > 0 THEN row[1] ELSE <<>>
        name == IF Len(row) > 1 THEN row[2] ELSE <<>>
        company == IF Len(row) > 2 THEN row[3] ELSE <<>>
        email == IF contains(first, "@") THEN first ELSE first_truthy(first_with_at(row), first) IN
    IF raw = <<>> THEN <<>>
    ELSE IF email # <<>> /\ validate_email(email)
    THEN << Recipient(email, name, company) >>
    ELSE <<>>

RECURSIVE parse_rows(_, _)
parse_rows(fieldnames, rows) ==
    IF rows = <<>> THEN <<>>
    ELSE (IF fieldnames = <<>> THEN parse_plain_row(Head(rows))
          ELSE parse_header_row(fieldnames, Head(rows)))
         \o parse_rows(fieldnames, Tail(rows))

\* load_recipients_from_csv, lines 622-673.  The IndexError of line 633 on an
\* empty text is caught at line 670.
load_recipients_from_csv(rows) ==
    IF rows = <<>> THEN <<>>
    ELSE IF has_header(rows) THEN parse_rows(Head(rows), Tail(rows))
    ELSE parse_rows(<<>>, rows)

\* A duplicate removal that compares the addresses as they are written.
RECURSIVE remove_duplicates_exact(_, _)
remove_duplicates_exact(all, seen) ==
    IF all = <<>> THEN <<>>
    ELSE LET email == Head(all).email IN
         IF email \notin seen
         THEN <<Head(all)>> \o remove_duplicates_exact(Tail(all), seen \cup {email})
         ELSE remove_duplicates_exact(Tail(all), seen)

\* main, lines 1299-1306: the first record of every e-mail address, compared
\* in lower case.
RECURSIVE remove_duplicates(_, _)
remove_duplicates(all, seen) ==
    IF all = <<>> THEN <<>>
    ELSE LET email == lower(Head(all).email) IN
         IF email \notin seen
         THEN <<Head(all)>> \o remove_duplicates(Tail(all), seen \cup {email})
         ELSE remove_duplicates(Tail(all), seen)

(***************************************************************************)
(* Recipient input the ingestion is run on.                                *)
(***************************************************************************)
XCom == <<"@","x",".","c","o","m">>
JohnAddr == <<"j","o","h","n">> \o XCom
JohnAddrCaps == <<"J","o","h","n">> \o XCom
JaneAddr == <<"j","a","n","e">> \o XCom
BobAddr == <<"b","o","b">> \o XCom
TwoAtAddr == <<"b","o","b">> \o XCom \o XCom
JaneDoe == <<"J","a","n","e"," ","D","o","e">>
Bob == <<"B","o","b">>
Acme == <<"A","c","m","e">>

LineChoices ==
    { JohnAddr,                                       \* john@x.com
      JaneDoe \o <<" ","<">> \o JaneAddr \o <<">">>,   \* Jane Doe <jane@x.com>
      Bob \o <<","," ">> \o BobAddr,                   \* Bob, bob@x.com
      <<" ">> \o JohnAddrCaps \o <<";"," ">> \o Bob,   \* John@x.com; Bob
      Bob \o <<" ","<">> \o JohnAddrCaps \o <<">">>,  \* Bob <John@x.com>
      <<"<">> \o TwoAtAddr \o <<">">>,                 \* <bob@x.com@x.com>
      Bob \o <<" ","<","b","o","b","@","x",">">>,      \* Bob <bob@x>
      <<"b","o","b","@","x",".","c">>,                 \* bob@x.c
      Bob,                                             \* Bob
      <<" ">> }

HeaderRow == << <<"e","m","a","i","l">>, <<"n","a","m","e">>,
                <<"c","o","m","p","a","n","y">> >>

RowChoices ==
    { HeaderRow,
      << JohnAddr, <<"J","o","h","n">>, Acme >>,
      << JohnAddrCaps, <<>>, Acme >>,
      << Bob, <<" ">> \o BobAddr >>,
      << TwoAtAddr, Bob >>,
      << <<"e","m","a","i","l">> \o XCom, Bob >>,
      << <<>>, Bob, <<"b","o","b","@","x">> >>,
      <<>> }

\* The timing sliders of lines 713-714: 10..120 and 30..300, set
\* independently; here one setting of each order.
SliderChoices == { <<1, 2>>, <<2, 1>> }

SavedChoices ==
    { <<>>,
      << Recipient(JohnAddrCaps, <<"J","o","h","n">>, Acme),
         Recipient(BobAddr, Bob, <<>>) >> }

SeqsUpTo(S, n) == UNION {[1..k -> S] : k \in 0..n}

CampaignIdle ==
    /\ min_delay = 1
    /\ max_delay = 1
    /\ max_emails = DefaultMaxEmails
    /\ num_recipients = 0
    /\ progress_file = NoFile
    /\ run_no = 1
    /\ delivered_before = {}
    /\ prev_outcome = "none"
    /\ FreshProcess

InitResolver ==
    /\ rpc = "input"
    /\ \/ /\ source_kind = "text"
          /\ text_lines \in SeqsUpTo(LineChoices, MaxLines)
          /\ csv_rows = <<>>
       \/ /\ source_kind = "csv"
          /\ csv_rows \in SeqsUpTo(RowChoices, MaxRows)
          /\ text_lines = <<>>
    /\ selected_recipients \in SavedChoices
    /\ recipients = <<>>
    /\ unique_recipients = <<>>
    /\ slider_delay \in SliderChoices
    /\ attempted = <<>>
    /\ CampaignIdle
    /\ RendererIdle
    /\ ConnectIdle
    /\ AppIdle

\* main, lines 1172-1173: the pasted text is parsed.
ParseTextForm ==
    /\ rpc = "input"
    /\ source_kind = "text"
    /\ recipients' = parse_text_form_recipients(text_lines)
    /\ rpc' = "parsed"
    /\ UNCHANGED <<source_kind, text_lines, csv_rows, selected_recipients,
                   unique_recipients, slider_delay, attempted>>
    /\ UNCHANGED <<campaign_vars, renderer_vars, connect_vars, app_vars>>

\* main, lines 1129-1130: the uploaded file is parsed.
LoadCsv ==
    /\ rpc = "input"
    /\ source_kind = "csv"
    /\ recipients' = load_recipients_from_csv(csv_rows)
    /\ rpc' = "parsed"
    /\ UNCHANGED <<source_kind, text_lines, csv_rows, selected_recipients,
                   unique_recipients, slider_delay, attempted>>
    /\ UNCHANGED <<campaign_vars, renderer_vars, connect_vars, app_vars>>

\* main, lines 1292-1306: the list the send loop iterates.
RemoveDuplicates ==
    /\ rpc = "parsed"
    /\ unique_recipients' = remove_duplicates(recipients \o selected_recipients, {})
    /\ rpc' = "ready"
    /\ UNCHANGED <<source_kind, text_lines, csv_rows, selected_recipients, recipients,
                   slider_delay, attempted>>
    /\ UNCHANGED <<campaign_vars, renderer_vars, connect_vars, app_vars>>

\* main, lines 1309-1313 and 1346-1377: with at least one recipient the
\* campaign can be started; it returns when connect_smtp fails.
StartSending ==
    /\ rpc = "ready"
    /\ unique_recipients # <<>>
    /\ \E connected \in BOOLEAN : rpc' = IF connected THEN "sending" ELSE "stopped"
    /\ UNCHANGED <<source_kind, text_lines, csv_rows, selected_recipients, recipients,
                   unique_recipients, slider_delay, attempted>>
    /\ UNCHANGED <<campaign_vars, renderer_vars, connect_vars, app_vars>>

\* main, lines 1390-1411: one pass of the for statement over
\* unique_recipients.  send_email returns True or False and never raises;
\* random.randint raises on an empty range, which ends the loop at line 1430.
SendToNext ==
    /\ rpc = "sending"
    /\ LET k == Len(attempted) + 1
           total_recipients == Len(unique_recipients) IN
       /\ attempted' = Append(attempted, unique_recipients[k])
       /\ rpc' = IF k < total_recipients
                 THEN (IF randint(slider_delay[1], slider_delay[2]) = {}
                       THEN "stopped" ELSE "sending")
                 ELSE "finished"
    /\ UNCHANGED <<source_kind, text_lines, csv_rows, selected_recipients, recipients,
                   unique_recipients, slider_delay>>
    /\ UNCHANGED <<campaign_vars, renderer_vars, connect_vars, app_vars>>

NextResolver ==
    \/ ParseTextForm
    \/ LoadCsv
    \/ RemoveDuplicates
    \/ StartSending
    \/ SendToNext

SpecResolver == InitResolver /\ [][NextResolver]_vars

(***************************************************************************)
(* app.py: smart_format_template, lines 426-479, and its callers.          *)
(***************************************************************************)
\* \s
Spaces == Whitespace \cup {"\n"}

\* str(k) for the numbers that index the protected blocks
str(k) == << <<"0","1","2","3","4","5","6","7","8","9">>[k + 1] >>

\* s.replace(old, new): every non-overlapping occurrence, from the left
RECURSIVE replace(_, _, _)
replace(s, old, new) ==
    LET p == find(s, old, 1) IN
    IF old = <<>> \/ p = 0 THEN s
    ELSE SubSeq(s, 1, p - 1) \o new \o replace(SubSeq(s, p + Len(old), Len(s)), old, new)

\* Line 431, re.sub(r'(\w+)\s*:\s*', r'\1:', template): the white space around
\* every colon that follows a word is dropped, in the whole template.
RECURSIVE fix_css_spacing(_)
fix_css_spacing(template) ==
    IF template = <<>> THEN <<>>
    ELSE IF template[1] \notin WordChars
    THEN <<template[1]>> \o fix_css_spacing(Tail(template))
    ELSE LET word == run_end(template, 1, WordChars)
             colon == run_end(template, word + 1, Spaces) + 1 IN
         IF colon <= Len(template) /\ template[colon] = ":"
         THEN SubSeq(template, 1, word) \o <<":">>
              \o fix_css_spacing(SubSeq(template,
                                        run_end(template, colon + 1, Spaces) + 1,
                                        Len(template)))
         ELSE SubSeq(template, 1, word)
              \o fix_css_spacing(SubSeq(template, word + 1, Len(template)))

StyleOpen == <<"<","s","t","y","l","e",">">>
StyleClose == <<"<","/","s","t","y","l","e",">">>
InlineOpen == <<"s","t","y","l","e","=","\"">>
Quote == <<"\"">>
StyleBlockMark == <<"S","T","Y","L","E","_","B","L","O","C","K">>
InlineStyleMark == <<"I","N","L","I","N","E","_","S","T","Y","L","E">>
Underscores == <<"_","_">>

\* f"__STYLE_BLOCK_{k}__" and f"__INLINE_STYLE_{k}__"
marker(mark, k) == Underscores \o mark \o <<"_">> \o str(k) \o Underscores

\* re.sub(pattern, protect, text) for a pattern that is an opening text, the
\* shortest text up to a closing text, and the closing text: each match, from
\* the left, is appended to the list and replaced by the marker of its index.
\* The result is the new text and the list.
RECURSIVE protect(_, _, _, _, _)
protect(text, opening, closing, mark, k) ==
    LET p == find(text, opening, 1)
        q == IF p = 0 THEN 0 ELSE find(text, closing, p + Len(opening)) IN
    IF q = 0 THEN [text |-> text, blocks |-> <<>>]
    ELSE LET e == q + Len(closing) - 1
             rest == protect(SubSeq(text, e + 1, Len(text)), opening, closing,
                             mark, k + 1) IN
         [text |-> SubSeq(text, 1, p - 1) \o marker(mark, k) \o rest.text,
          blocks |-> <<SubSeq(text, p, e)>> \o rest.blocks]

\* Line 451, re.sub(r'<style>.*?</style>', protect_style_block, template, DOTALL)
protect_style_block(template) ==
    protect(template, StyleOpen, StyleClose, StyleBlockMark, 0)

\* Line 459, re.sub(r'style="[^"]*"', protect_inline_style, protected_template)
protect_inline_style(protected_template) ==
    protect(protected_template, InlineOpen, Quote, InlineStyleMark, 0)

\* Line 462, re.findall(r'\{([^}]+)\}', protected_template): from each opening
\* brace that is not directly followed by a closing one, the text up to the
\* next closing brace.
RECURSIVE template_vars(_)
template_vars(text) ==
    LET closing(p) == find(text, <<"}">>, p + 1)
        opens == {p \in 1..Len(text) : text[p] = "{" /\ closing(p) >= p + 2} IN
    IF opens = {} THEN <<>>
    ELSE LET p == MinOf(opens) IN
         <<SubSeq(text, p + 1, closing(p) - 1)>>
         \o template_vars(SubSeq(text, closing(p) + 1, Len(text)))

\* Lines 464-467: for each name found, in order, every '{name}' of the
\* result so far is replaced when the name is a keyword argument.
RECURSIVE replace_vars(_, _, _)
replace_vars(result, names, kw) ==
    IF names = <<>> THEN result
    ELSE LET var == Head(names) IN
         replace_vars(IF var \in DOMAIN kw
                      THEN replace(result, <<"{">> \o var \o <<"}">>, kw[var])
                      ELSE result,
                      Tail(names), kw)

\* Lines 470-475: for i, block in enumerate(blocks): the marker of i is
\* replaced by the block.
RECURSIVE restore(_, _, _, _)
restore(result, mark, blocks, k) ==
    IF blocks = <<>> THEN result
    ELSE restore(replace(result, marker(mark, k), Head(blocks)), mark,
                 Tail(blocks), k + 1)

smart_format_template(template, kw) ==
    LET fixed == fix_css_spacing(template)
        styles == protect_style_block(fixed)
        inline == protect_inline_style(styles.text)
        result == replace_vars(inline.text, template_vars(inline.text), kw) IN
    restore(restore(result, StyleBlockMark, styles.blocks, 0),
            InlineStyleMark, inline.blocks, 0)

\* The names of the keyword arguments.
NameKey == <<"n","a","m","e">>
CompanyKey == <<"c","o","m","p","a","n","y">>
EmailKey == <<"e","m","a","i","l">>
GreetingKey == <<"g","r","e","e","t","i","n","g">>
token(key) == <<"{">> \o key \o <<"}">>

Keywords(name, company, email, greeting) ==
    [key \in {NameKey, CompanyKey, EmailKey, GreetingKey} |->
        IF key = NameKey THEN name
        ELSE IF key = CompanyKey THEN company
        ELSE IF key = EmailKey THEN email
        ELSE greeting]

\* get_random_greeting, lines 91-97, for the greeting that random.choice drew
get_random_greeting(greeting, name) ==
    IF name = <<>> THEN greeting \o <<",">>
    ELSE greeting \o <<" ">> \o name \o <<",">>

\* config['greetings']
Greetings == { <<"B","o","n","j","o","u","r">>, <<"S","a","l","u","t">> }

\* Pieces of which the custom templates of the model are made.
SpacedStyleBlock == <<"<","s","t","y","l","e",">","p"," ","{"," ","c","o","l","o","r",":"," ","r","e","d",";"," ","}","<","/","s","t","y","l","e",">">>
TightStyleBlock == <<"<","s","t","y","l","e",">","p","{","c","o","l","o","r",":","r","e","d","}","<","/","s","t","y","l","e",">">>
SpacedInlineStyle == <<"s","t","y","l","e","=","\"","c","o","l","o","r",":"," ","r","e","d","\"">>
MarkerText == marker(StyleBlockMark, 0)
SegmentChoices ==
    { SpacedStyleBlock,
      TightStyleBlock,
      <<"<","p"," ">> \o SpacedInlineStyle \o <<">">>,
      token(GreetingKey),
      token(NameKey),
      token(EmailKey),
      token(CompanyKey),
      token(<<"p","h","o","n","e">>),
      <<" ","a","t"," ">>,
      <<"T","e","l",":"," ">>,
      MarkerText }

RECURSIVE Flatten(_)
Flatten(segments) ==
    IF segments = <<>> THEN <<>> ELSE Head(segments) \o Flatten(Tail(segments))

TemplateChoices == {Flatten(segments) : segments \in SeqsUpTo(SegmentChoices, MaxSegments)}
                       \ {<<>>}

Ann == <<"A","n","n">>
NameChoices == { <<>>, Ann, token(EmailKey), MarkerText }
CompanyChoices == { <<>>, Acme }

\* The sample recipient of the preview, lines 1022-1025.
SampleName == <<"J","o","h","n"," ","D","o","e">>
SampleCompany == <<"T","e","c","h"," ","C","o","m","p","a","n","y">>
SampleEmail == <<"j","o","h","n","@","e","x","a","m","p","l","e",".","c","o","m">>

InitRenderer ==
    /\ tpc = "input"
    /\ html_template \in TemplateChoices
    /\ \E name \in NameChoices, company \in CompanyChoices :
          render_for = [name |-> name, company |-> company, email |-> JohnAddr]
    /\ kwargs = <<>>
    /\ html_content = <<>>
    /\ CampaignIdle
    /\ ResolverIdle
    /\ ConnectIdle
    /\ AppIdle

\* create_custom_html_email, lines 130-150, for a configuration that has a
\* custom HTML template.
CreateCustomHtmlEmail ==
    /\ tpc = "input"
    /\ \E greeting \in Greetings :
          kwargs' = Keywords(render_for.name, render_for.company, render_for.email,
                             get_random_greeting(greeting, render_for.name))
    /\ html_content' = smart_format_template(html_template, kwargs')
    /\ tpc' = "rendered"
    /\ UNCHANGED <<html_template, render_for>>
    /\ UNCHANGED <<campaign_vars, resolver_vars, connect_vars, app_vars>>

\* main, lines 1022-1038: the preview of the custom HTML template.
PreviewHtml ==
    /\ tpc = "input"
    /\ kwargs' = Keywords(SampleName, SampleCompany, SampleEmail,
                          <<"D","e","a","r"," ">> \o SampleName)
    /\ html_content' = smart_format_template(html_template, kwargs')
    /\ tpc' = "previewed"
    /\ UNCHANGED <<html_template, render_for>>
    /\ UNCHANGED <<campaign_vars, resolver_vars, connect_vars, app_vars>>

NextRenderer ==
    \/ CreateCustomHtmlEmail
    \/ PreviewHtml

SpecRenderer == InitRenderer /\ [][NextRenderer]_vars

(***************************************************************************)
(* app_new.py: EmailSender.validate_credentials and connect_smtp, called   *)
(* by the connection test of the configuration page.                       *)
(***************************************************************************)
\* validate_credentials, lines 124-141
validate_credentials(email, app_password) ==
    LET address == strip(email)
        password == strip(app_password) IN
    /\ address # <<>>
    /\ password # <<>>
    /\ contains(address, "@")
    /\ Len(password) = PasswordLength

SixteenChars == <<"a","b","c","d","e","f","g","h","i","j","k","l","m","n","o","p">>
EmailInputs == { <<>>, <<" ">>, <<"j","o","h","n">>, JohnAddr }
PasswordInputs == { <<>>,
                    SubSeq(SixteenChars, 1, 15),
                    SixteenChars,
                    <<" ">> \o SixteenChars \o <<" ">>,
                    SixteenChars \o <<"q">> }

InitConnect ==
    /\ cpc = "ready"
    /\ config_email = <<>>
    /\ config_password = <<>>
    /\ smtp = "None"
    /\ login_attempts = 0
    /\ first_error = "none"
    /\ authenticated = FALSE
    /\ returned = "none"
    /\ calls = 0
    /\ CampaignIdle
    /\ ResolverIdle
    /\ RendererIdle
    /\ AppIdle

\* Lines 453-461: the operator presses the test button; a new EmailSender is
\* made from the fields of the page (__init__, lines 120-122).
TestConnection ==
    /\ cpc \in {"ready", "returned", "disconnected"}
    /\ calls < MaxCalls
    /\ calls' = calls + 1
    /\ config_email' \in EmailInputs
    /\ config_password' \in PasswordInputs
    /\ smtp' = "None"
    /\ login_attempts' = 0
    /\ first_error' = "none"
    /\ authenticated' = FALSE
    /\ returned' = "none"
    /\ cpc' = "validate"
    /\ UNCHANGED <<campaign_vars, resolver_vars, renderer_vars, app_vars>>

\* connect_smtp, lines 145-150
ValidateCredentials ==
    /\ cpc = "validate"
    /\ IF validate_credentials(config_email, config_password)
       THEN /\ cpc' = "method1"
            /\ UNCHANGED returned
       ELSE /\ cpc' = "returned"
            /\ returned' = "False"
    /\ UNCHANGED <<config_email, config_password, smtp, login_attempts, first_error,
                   authenticated, calls>>
    /\ UNCHANGED <<campaign_vars, resolver_vars, renderer_vars, app_vars>>

\* What smtplib.SMTP, starttls and login may do, in this order.
ConnectResults == {"no_connection", "tls_failed", "auth_failed", "login_error", "ok"}
LoginCalled(result) == result \in {"auth_failed", "login_error", "ok"}

\* A method 1 that goes on to the alternative method after any failure.
Method1RetryAlways ==
    /\ cpc = "method1"
    /\ \E result \in ConnectResults :
          /\ smtp' = IF result = "no_connection" THEN smtp ELSE "open"
          /\ login_attempts' = IF LoginCalled(result) THEN login_attempts + 1
                               ELSE login_attempts
          /\ first_error' = IF result = "ok" THEN "none"
                            ELSE IF result = "auth_failed" THEN "auth" ELSE "other"
          /\ authenticated' = (result = "ok")
          /\ returned' = IF result = "ok" THEN "True" ELSE returned
          /\ cpc' = IF result = "ok" \/ result = "no_connection" THEN "returned"
                    ELSE "method2"
    /\ UNCHANGED <<config_email, config_password, calls>>
    /\ UNCHANGED <<campaign_vars, resolver_vars, renderer_vars, app_vars>>

\* connect_smtp, lines 162-171 and 188-190: method 1.  Only login raises
\* SMTPAuthenticationError; every other exception is caught at line 188.
Method1 ==
    /\ cpc = "method1"
    /\ \E result \in ConnectResults :
          /\ smtp' = IF result = "no_connection" THEN smtp ELSE "open"
          /\ login_attempts' = IF LoginCalled(result) THEN login_attempts + 1
                               ELSE login_attempts
          /\ first_error' = IF result = "ok" THEN "none"
                            ELSE IF result = "auth_failed" THEN "auth" ELSE "other"
          /\ authenticated' = (result = "ok")
          /\ returned' = IF result = "ok" THEN "True"
                         ELSE IF result = "auth_failed" THEN returned ELSE "False"
          /\ cpc' = IF result = "auth_failed" THEN "method2" ELSE "returned"
    /\ UNCHANGED <<config_email, config_password, calls>>
    /\ UNCHANGED <<campaign_vars, resolver_vars, renderer_vars, app_vars>>

\* connect_smtp, lines 173-186: method 2, after SMTPAuthenticationError.  quit
\* on the first session may raise as well; every exception ends the method.
Method2 ==
    /\ cpc = "method2"
    /\ \E result \in ConnectResults \cup {"quit_failed"} :
          /\ smtp' = IF result = "quit_failed" THEN smtp
                     ELSE IF result = "no_connection" THEN "closed" ELSE "open"
          /\ login_attempts' = IF LoginCalled(result) THEN login_attempts + 1
                               ELSE login_attempts
          /\ authenticated' = (result = "ok")
          /\ returned' = IF result = "ok" THEN "True" ELSE "False"
    /\ cpc' = "returned"
    /\ UNCHANGED <<config_email, config_password, first_error, calls>>
    /\ UNCHANGED <<campaign_vars, resolver_vars, renderer_vars, app_vars>>

\* Line 465 and disconnect, lines 233-240: after a successful test.
Disconnect ==
    /\ cpc = "returned"
    /\ returned = "True"
    /\ smtp' = "None"
    /\ cpc' = "disconnected"
    /\ UNCHANGED <<config_email, config_password, login_attempts, first_error,
                   authenticated, returned, calls>>
    /\ UNCHANGED <<campaign_vars, resolver_vars, renderer_vars, app_vars>>

NextConnect ==
    \/ TestConnection
    \/ ValidateCredentials
    \/ Method1
    \/ Method2
    \/ Disconnect

SpecConnect == InitConnect /\ [][NextConnect]_vars

Next ==
    \/ LoadProgress
    \/ ConnectSmtp
    \/ LoadRecipients
    \/ CheckDailyLimit
    \/ SendEmail
    \/ SaveEveryFive
    \/ RandomDelay
    \/ FinalSummary
    \/ KeyboardInterrupt
    \/ Finally
    \/ StartAgain

Spec == Init /\ [][Next]_vars

(***************************************************************************)
(* Properties of the campaign run (send_cv.py), checked under Spec.        *)
(***************************************************************************)
FileIndex == progress_file[1].last_sent_index

\* C1: a run that starts at index 0 and in which the server accepts the
\* message of every one of the n >= 1 recipients performs exactly n - 1
\* pacing sleeps, each of a duration between min_delay and max_delay, none
\* after the last recipient, and ends with the summary sent = n, failed = 0.
\* The run is one that the operator does not interrupt and in which the
\* progress file can be written.
C1_PacedRunOfSuccesses ==
    /\ sleep_count > 0 => (min_delay <= delay /\ delay <= max_delay)
    /\ (/\ pc = "done"
        /\ outcome # "interrupted"
        /\ ~persistence_error
        /\ start_index = 0
        /\ num_recipients >= 1
        /\ sent_count = num_recipients)
       => (/\ outcome = "completed"
           /\ sleep_count = num_recipients - 1
           /\ failed_count = 0)

\* Three recipients, equal delay bounds, every send accepted: two sleeps.
C1_Witness ==
    /\ pc = "done"
    /\ outcome = "completed"
    /\ start_index = 0
    /\ num_recipients = 3
    /\ min_delay = max_delay
    /\ sent_count = 3
    /\ sleep_count = 2
    /\ delay = min_delay

\* C2: a failed transmission to recipient i adds exactly one to failed_count,
\* leaves sent_count alone and leaves the run in its loop at recipient i; from
\* there the loop goes on to recipient i + 1 (or to the summary after the last
\* one) unless the operator interrupts, randint finds an empty range or the
\* progress file cannot be written.
C2_FailureIsRecovered ==
    /\ [][(pc = "send" /\ outcome' # "interrupted" /\ sent_count' = sent_count)
            => (/\ failed_count' = failed_count + 1
                /\ ~success'
                /\ pc' = "save"
                /\ i' = i
                /\ outcome' = "running")]_vars
    /\ [][(pc = "save" /\ ~success)
            => (pc' = "delay" \/ outcome' = "interrupted" \/ persistence_error')]_vars
    /\ [][(pc = "delay" /\ ~success)
            => \/ i < num_recipients - 1 /\ pc' = "send" /\ i' = i + 1
               \/ i = num_recipients - 1 /\ pc' = "summary"
               \/ outcome' = "interrupted"
               \/ outcome' = "error" /\ min_delay > max_delay]_vars

\* The loop is at recipient 1 after the send to recipient 0 failed.
C2_Witness ==
    /\ pc = "send"
    /\ i = 1
    /\ start_index = 0
    /\ failed_count = 1
    /\ sent_count = 0
    /\ ~success

\* C3: when the session breaks at index 2 of 5, after two recipients have
\* been sent, the run ends with a progress file whose index is 2 (from which
\* a second run starts).
C3_BrokenSessionLeavesCheckpoint ==
    (/\ pc = "done"
     /\ run_no = 1
     /\ num_recipients = 5
     /\ min_delay <= max_delay
     /\ broke_at = 2
     /\ sent_count = 2)
    => (progress_file # NoFile /\ FileIndex = 2)

\* C4: a run resumed from the progress file of an interrupted run sends to no
\* recipient whose message was accepted in the interrupted run.
C4_NoResendAfterResume ==
    (run_no = 2 /\ prev_outcome = "interrupted" /\ resumed)
    => delivered_now \cap delivered_before = {}

\* C5: run() is never left with the SMTP session still open.
C5_SessionClosedAtExit ==
    pc = "done" => server # "open"

\* C6: with more recipients than max_emails_per_day and without the
\* operator's 'y' nothing is transmitted in the run; with the 'y' the run
\* enters its loop.
C6_DailyLimitGate ==
    /\ [](num_recipients > max_emails /\ ~confirmed
            => /\ pc \notin {"send", "save", "delay", "summary", "finally"}
               /\ sent_count + failed_count = 0
               /\ delivered_now = {})
    /\ [][(pc = "limit" /\ num_recipients > max_emails)
            => \/ confirmed' /\ pc' = EnterLoop /\ i' = start_index
               \/ ~confirmed' /\ pc' = "done" /\ outcome' = "refused"]_vars

\* The run was refused at the limit.
C6_Witness ==
    /\ pc = "done"
    /\ outcome = "refused"
    /\ num_recipients > max_emails
    /\ server = "open"

\* C7: after save_progress, loading gives back the saved index, sent_count
\* and failed_count.
C7_LoadReturnsSaved ==
    (pc = "connect" /\ resumed)
    => (/\ start_index = FileIndex
        /\ sent_count = progress_file[1].sent_count
        /\ failed_count = progress_file[1].failed_count)

(***************************************************************************)
(* Properties of the recipient ingestion (app.py), checked under           *)
(* SpecResolver.                                                           *)
(***************************************************************************)
Emails(records) == {lower(records[k].email) : k \in 1..Len(records)}

\* records holds, in order, the first record of every e-mail address of all,
\* addresses compared without regard to letter case.
FirstOccurrences(records, all) ==
    LET first(e) == MinOf({k \in 1..Len(all) : lower(all[k].email) = e})
        firsts == {first(e) : e \in Emails(all)}
        nth(j) == CHOOSE k \in firsts : Cardinality({m \in firsts : m < k}) = j - 1 IN
    /\ Len(records) = Cardinality(firsts)
    /\ \A j \in 1..Len(records) : records[j] = all[nth(j)]

CountOf(s, c) == Cardinality({k \in 1..Len(s) : s[k] = c})

\* C8 as stated: the list returned by parse_text_form_recipients or
\* load_recipients_from_csv holds one record per e-mail address compared
\* without regard to letter case, the first one of the input.
C8_ParsersDeduplicate ==
    rpc # "input" => FirstOccurrences(recipients, recipients)

\* C8 as amended: the list main builds from the parsed recipients and the
\* selected saved recipients holds exactly one record per e-mail address
\* compared without regard to letter case, the first occurrence, in the
\* order of the input.
C8_MainDeduplicates ==
    rpc = "ready" =>
        FirstOccurrences(unique_recipients, recipients \o selected_recipients)

\* Two parsed records whose addresses differ only in case; main kept the first.
C8_Witness ==
    /\ rpc = "ready"
    /\ \E j, k \in 1..Len(recipients) :
          /\ j < k
          /\ recipients[j].email # recipients[k].email
          /\ lower(recipients[j].email) = lower(recipients[k].email)
          /\ unique_recipients[1] = recipients[j]
    /\ Len(unique_recipients) < Len(recipients)

\* C9: every record of the parsers' result has a non-empty e-mail address
\* with exactly one '@' and a '.' in the part after it.
C9_OutputEmailsWellFormed ==
    rpc # "input" =>
        \A k \in 1..Len(recipients) :
            LET email == recipients[k].email IN
            /\ email # <<>>
            /\ CountOf(email, "@") = 1
            /\ contains(SubSeq(email, find(email, <<"@">>, 1) + 1, Len(email)), ".")

\* C10.  The three line formats of the claim, over sample names and addresses.
SampleAddrs == {JohnAddr, JohnAddrCaps, JaneAddr, BobAddr}
SampleNames == {JaneDoe, Bob}
KnownLines ==
    {[line |-> e, email |-> e, name |-> <<>>] : e \in SampleAddrs}
    \cup {[line |-> n \o <<" ", "<">> \o e \o <<">">>, email |-> e, name |-> n] :
             n \in SampleNames, e \in SampleAddrs}
    \cup {[line |-> n \o <<",", " ">> \o e, email |-> e, name |-> n] :
             n \in SampleNames, e \in SampleAddrs}
IsKnown(line) == \E f \in KnownLines : f.line = line
Expected(line) ==
    LET f == CHOOSE f \in KnownLines : f.line = line IN
    Recipient(f.email, f.name, <<>>)

\* records are taken from lines in order, at most one from each, each with an
\* address that stands in its line.
RECURSIVE InLineOrder(_, _)
InLineOrder(records, lines) ==
    \/ records = <<>>
    \/ /\ lines # <<>>
       /\ \/ InLineOrder(records, Tail(lines))
          \/ /\ occurs(Head(records).email, Head(lines))
             /\ InLineOrder(Tail(records), Tail(lines))

SampleText ==
    << JohnAddr,
       JaneDoe \o <<" ", "<">> \o JaneAddr \o <<">">>,
       Bob \o <<",", " ">> \o BobAddr >>

\* C10: parse_text_form_recipients yields at most one record per non-blank
\* line, in line order; a bare address yields the address with an empty name,
\* "Name <address>" the address with the name left after removing the
\* bracket, "Name, address" the address with the name without its comma; the
\* three-line sample yields its three records.
C10_TextFormRecords ==
    (rpc # "input" /\ source_kind = "text") =>
        /\ InLineOrder(recipients, text_lines)
        /\ \A k \in 1..Len(text_lines) :
              /\ strip(text_lines[k]) = <<>> =>
                    InLineOrder(recipients, SubSeq(text_lines, 1, k - 1)
                                            \o SubSeq(text_lines, k + 1, Len(text_lines)))
              /\ IsKnown(text_lines[k]) =>
                    \E j \in 1..Len(recipients) : recipients[j] = Expected(text_lines[k])
        /\ (\A k \in 1..Len(text_lines) : IsKnown(text_lines[k])) =>
              recipients = [k \in 1..Len(text_lines) |-> Expected(text_lines[k])]
        /\ text_lines = SampleText =>
              recipients = << Recipient(JohnAddr, <<>>, <<>>),
                              Recipient(JaneAddr, JaneDoe, <<>>),
                              Recipient(BobAddr, Bob, <<>>) >>

\* The three-line sample has been parsed into three records.
C10_Witness ==
    /\ rpc = "parsed"
    /\ source_kind = "text"
    /\ text_lines = SampleText
    /\ Len(recipients) = 3

(***************************************************************************)
(* Properties of the template renderer (app.py), checked under             *)
(* SpecRenderer.                                                           *)
(***************************************************************************)
\* The <style> blocks of a template and the inline style attributes outside
\* them, as the expressions of lines 451 and 459 find them.
StyleContents(template) ==
    LET styles == protect_style_block(template) IN
    styles.blocks \o protect_inline_style(styles.text).blocks

\* The template without its style content, as the substitution sees it.
ProtectedText(template) ==
    protect_inline_style(protect_style_block(fix_css_spacing(template)).text).text

\* C11: every <style> block and every inline style attribute of the template
\* appears unchanged, character for character, in the rendered output.
C11_StyleUnchanged ==
    tpc \in {"rendered", "previewed"}
    => \A k \in DOMAIN StyleContents(html_template) :
          occurs(StyleContents(html_template)[k], html_content)

\* C12: for every keyword whose token {k} stands in the template outside
\* style content, the rendered output contains the value bound to k and no
\* token {k} any more, also when a value contains a brace token or the text
\* of a marker.
C12_PlaceholdersReplaced ==
    tpc = "rendered"
    => \A key \in DOMAIN kwargs :
          occurs(token(key), ProtectedText(html_template))
          => /\ occurs(kwargs[key], html_content)
             /\ ~occurs(token(key), html_content)

(***************************************************************************)
(* Further properties of the campaign run (send_cv.py), checked under      *)
(* Spec.                                                                   *)
(***************************************************************************)
\* C13: with an empty recipient list no connection to the mail server is
\* made: self.server stays None.
C13_NoConnectionWithoutRecipients ==
    num_recipients = 0 => server = "None"

\* C14: once the session has broken at some recipient, the run makes no
\* further send attempt and no further pacing sleep: the loop never moves
\* past the recipient at which the session broke.
C14_BrokenSessionStopsRun ==
    broke_at >= 0 => i = broke_at

\* C15: a run that ends by operator interruption or by an unexpected error,
\* both of which happen with an open session, has written a progress file
\* and closed the session when it ends.
C15_AbortedRunCheckpoints ==
    (pc = "done" /\ outcome \in {"interrupted", "error"})
    => (progress_file # NoFile /\ server # "open")

\* Every recipient from start_index through the last index has had its
\* send_email call.
LoopDone == sent_count + failed_count = num_recipients - start_index

\* C16: the progress file is removed only by the step that follows the
\* completed loop, when every recipient through the last index has been
\* processed; a run that is interrupted or ends on an error never removes an
\* existing progress file.
C16_CheckpointRemovedOnlyAtCompletion ==
    /\ [][(progress_file # NoFile /\ progress_file' = NoFile)
            => (pc = "summary" /\ LoopDone /\ outcome' = "completed")]_vars
    /\ [][(outcome' \in {"interrupted", "error", "crashed"} /\ progress_file # NoFile)
            => progress_file' # NoFile]_vars

\* A completed run over five recipients: the file written after the fifth
\* has been removed.
C16_Witness ==
    /\ pc = "done"
    /\ outcome = "completed"
    /\ num_recipients = 5
    /\ start_index = 0
    /\ LoopDone
    /\ progress_file = NoFile

\* C18: a failure to read or to write the progress file does not keep the
\* run from sending: a run in which such a failure happened still calls
\* send_email for every recipient from its start index through the last.
C18_PersistenceErrorDoesNotBlock ==
    (pc = "done" /\ persistence_error) => LoopDone

\* C19: the counters of every progress file account for every recipient
\* before its index: sent_count + failed_count = last_sent_index.
C19_CheckpointCountersAccount ==
    progress_file # NoFile
    => progress_file[1].sent_count + progress_file[1].failed_count = FileIndex

\* C20: the configuration of every run that has started has
\* 0 < min_delay <= max_delay and max_emails_per_day > 0.
C20_ConfigurationValid ==
    pc # "start" => (0 < min_delay /\ min_delay <= max_delay /\ max_emails > 0)

(***************************************************************************)
(* Properties of connect_smtp (app_new.py), checked under SpecConnect.     *)
(***************************************************************************)
\* C17: connect_smtp calls login at most twice; the second call is made only
\* after the first one failed with an authentication error; connect_smtp
\* returns True exactly when one of the logins succeeded, and False after a
\* second failure, with no login after that.
C17_AtMostOneRetry ==
    /\ [](/\ login_attempts <= 2
          /\ login_attempts = 2 => first_error = "auth"
          /\ cpc \in {"returned", "disconnected"}
             => /\ returned \in {"True", "False"}
                /\ returned = "True" <=> authenticated)
    /\ [][cpc = "returned" => (login_attempts' = login_attempts \/ cpc' = "validate")]_vars

\* The alternative method authenticated after the first login was refused.
C17_Witness ==
    /\ cpc = "returned"
    /\ first_error = "auth"
    /\ login_attempts = 2
    /\ authenticated
    /\ returned = "True"

C28_CursorNeverAhead ==
    [][(progress_file' # progress_file /\ progress_file' # NoFile)
         => progress_file'[1].last_sent_index
               <= start_index + sent_count + failed_count]_vars

\* A resumed run with a failed send was interrupted and wrote its index.
C28_Witness ==
    /\ pc = "done"
    /\ outcome = "interrupted"
    /\ resumed
    /\ failed_count > 0
    /\ sent_count > 0
    /\ progress_file # NoFile
    /\ FileIndex = start_index + sent_count

\* C22: rendering leaves everything outside recognized tokens as it is: a
\* template that has no style content and no token of a keyword, whatever
\* other brace tokens it holds, is returned unchanged.
C22_UnrecognizedLeftAlone ==
    (/\ tpc = "rendered"
     /\ StyleContents(html_template) = <<>>
     /\ \A key \in DOMAIN kwargs : ~occurs(token(key), html_template))
    => html_content = html_template

(***************************************************************************)
(* Further properties of the recipient ingestion and the send loop of      *)
(* app.py, checked under SpecResolver.                                     *)
(***************************************************************************)
\* A row whose column 0 is a valid address.
IsDataRow(row) == row # <<>> /\ validate_email(strip(row[1]))

\* The record of a data row: column 1 as name, column 2 as company.
DataRecord(row) ==
    Recipient(strip(row[1]),
              IF Len(row) > 1 THEN strip(row[2]) ELSE <<>>,
              IF Len(row) > 2 THEN strip(row[3]) ELSE <<>>)

\* C30: when the first line of the CSV is a data row, every row whose column
\* 0 is a valid address has its record in the result, the first row included.
C30_DataRowsKept ==
    (/\ rpc # "input"
     /\ source_kind = "csv"
     /\ csv_rows # <<>>
     /\ IsDataRow(csv_rows[1]))
    => \A k \in DOMAIN csv_rows :
          IsDataRow(csv_rows[k])
          => \E j \in DOMAIN recipients : recipients[j] = DataRecord(csv_rows[k])

\* C27: the list the send loop iterates has no two recipients whose
\* addresses are equal in lower case, and the loop calls send_email for the
\* recipients of that list in list order, each at most once.
C27_EachRecipientOnce ==
    /\ rpc \in {"ready", "sending", "stopped", "finished"}
       => \A j, k \in DOMAIN unique_recipients :
             lower(unique_recipients[j].email) = lower(unique_recipients[k].email)
             => j = k
    /\ Len(attempted) <= Len(unique_recipients)
    /\ \A k \in DOMAIN attempted : attempted[k] = unique_recipients[k]
    /\ rpc = "finished" => attempted = unique_recipients

\* The loop has finished over a list of two that was made from an input with
\* a repeated address.
C27_Witness ==
    /\ rpc = "finished"
    /\ Len(unique_recipients) = 2
    /\ Len(recipients \o selected_recipients) > 2
    /\ attempted = unique_recipients

(***************************************************************************)
(* email_automation.py: RecipientManager.  recipients_file holds the       *)
(* records of recipients.json; every method loads them, changes the list   *)
(* and saves it back.  Of a Recipient the model keeps the key and the two  *)
(* fields the send loop is concerned with.                                 *)
(***************************************************************************)
MaxStore == 2

NewRecipient(email) ==
    [email |-> email, last_contacted |-> "", status |-> "active"]

\* save_recipients: <<returned value, recipients.json afterwards>>; when the
\* file cannot be opened for writing the exception is logged and the file is
\* as it was.
save_recipients(file, recipients_list, writable) ==
    IF writable THEN <<"True", recipients_list>> ELSE <<"False", file>>

add_recipient(file, email, writable) ==
    IF \E k \in DOMAIN file : lower(file[k].email) = lower(email)
    THEN <<"False", file>>
    ELSE save_recipients(file, Append(file, NewRecipient(lower(email))), writable)

remove_recipient(file, email, writable) ==
    save_recipients(file,
                    SelectSeq(file, LAMBDA r : lower(r.email) # lower(email)),
                    writable)

\* setattr for every keyword that names a field of the first matching record
setattrs(recipient, kw) ==
    [key \in DOMAIN recipient |->
        IF key \in DOMAIN kw THEN kw[key] ELSE recipient[key]]

\* A variant of update_recipient that sets the keywords on every record
update_recipient_every(file, email, kw, writable) ==
    IF \A k \in DOMAIN file : lower(file[k].email) # lower(email)
    THEN <<"False", file>>
    ELSE save_recipients(file, [k \in DOMAIN file |-> setattrs(file[k], kw)], writable)

update_recipient(file, email, kw, writable) ==
    LET hits == {k \in DOMAIN file : lower(file[k].email) = lower(email)}
    IN  IF hits = {}
        THEN <<"False", file>>
        ELSE LET first == CHOOSE k \in hits : \A h \in hits : k <= h
             IN  save_recipients(file,
                                 [file EXCEPT ![first] = setattrs(file[first], kw)],
                                 writable)

\* The addresses the calls are made with, and the keyword arguments of
\* update_recipient: a field, the key itself, and a name that is no field.
StoreEmails == {JohnAddr, JohnAddrCaps, JaneAddr}

KwargChoices ==
    << [last_contacted |-> "now"],
       [email |-> JohnAddrCaps],
       [phone |-> "0600"] >>

InitStore ==
    /\ StoreIdle
    /\ SenderIdle
    /\ TabIdle
    /\ CampaignIdle
    /\ ResolverIdle
    /\ RendererIdle
    /\ ConnectIdle

AddRecipient ==
    /\ Len(recipients_file) < MaxStore
    /\ \E email \in StoreEmails, writable \in BOOLEAN :
          LET r == add_recipient(recipients_file, email, writable)
          IN  /\ manager_result' = r[1]
              /\ recipients_file' = r[2]
    /\ manager_call' = "add_recipient"
    /\ UNCHANGED <<campaign_vars, resolver_vars, renderer_vars, connect_vars,
                   sender_vars, tab_vars>>

RemoveRecipient ==
    /\ \E email \in StoreEmails, writable \in BOOLEAN :
          LET r == remove_recipient(recipients_file, email, writable)
          IN  /\ manager_result' = r[1]
              /\ recipients_file' = r[2]
    /\ manager_call' = "remove_recipient"
    /\ UNCHANGED <<campaign_vars, resolver_vars, renderer_vars, connect_vars,
                   sender_vars, tab_vars>>

UpdateRecipient ==
    /\ \E email \in StoreEmails, n \in DOMAIN KwargChoices, writable \in BOOLEAN :
          LET r == update_recipient(recipients_file, email, KwargChoices[n], writable)
          IN  /\ manager_result' = r[1]
              /\ recipients_file' = r[2]
    /\ manager_call' = "update_recipient"
    /\ UNCHANGED <<campaign_vars, resolver_vars, renderer_vars, connect_vars,
                   sender_vars, tab_vars>>

NextStore ==
    \/ AddRecipient
    \/ RemoveRecipient
    \/ UpdateRecipient

SpecStore == InitStore /\ [][NextStore]_vars

\* C24: after any sequence of add_recipient, remove_recipient and
\* update_recipient calls on an initially empty store every stored email is
\* lowercase and no two stored records have emails that are equal ignoring
\* case; add_recipient of an email that is already present, in any case,
\* returns False and leaves the store unchanged.
C24_StoredEmailsNormalized ==
    /\ \A k \in DOMAIN recipients_file :
          recipients_file[k].email = lower(recipients_file[k].email)
    /\ \A j, k \in DOMAIN recipients_file :
          lower(recipients_file[j].email) = lower(recipients_file[k].email) => j = k

(***************************************************************************)
(* email_automation.py: EmailSender.  One action per method; the outcome   *)
(* of every call on the network is chosen by the environment.              *)
(***************************************************************************)
sender_validate_credentials(config) ==
    /\ config.email # <<>>
    /\ config.password # <<>>
    /\ "@" \in Range(config.email)
    /\ ~(config.provider = "gmail" /\ Len(config.password) # PasswordLength)

SenderConfigs ==
    [email : { <<>>, <<"j","o","h","n">>, JohnAddr, JaneAddr },
     password : { <<>>, SubSeq(SixteenChars, 1, 15), SixteenChars },
     provider : {"gmail", "outlook"}]

\* What the server does with connect_smtp: the connection is refused,
\* starttls raises, login raises, or login succeeds.
ConnectOutcomes == {"refused", "tls_failed", "login_failed", "ok"}

InitSender ==
    /\ sender_config \in SenderConfigs
    /\ sender_server = "None"
    /\ session_ok = FALSE
    /\ sender_call = "none"
    /\ sender_result = "none"
    /\ transmitted = FALSE
    /\ StoreIdle
    /\ TabIdle
    /\ CampaignIdle
    /\ ResolverIdle
    /\ RendererIdle
    /\ ConnectIdle

\* connect_smtp, lines 458-490: self.server is assigned as soon as the
\* connection exists, before starttls and login; no handler resets it.
connect_smtp(config, held, outcome_of_server) ==
    IF ~sender_validate_credentials(config) THEN <<"False", held>>
    ELSE IF outcome_of_server = "refused" THEN <<"False", held>>
    ELSE IF outcome_of_server = "ok" THEN <<"True", "authenticated">>
    ELSE <<"False", "unauthenticated">>

SenderConnectSmtp ==
    /\ \E outcome_of_server \in ConnectOutcomes :
          LET r == connect_smtp(sender_config, sender_server, outcome_of_server)
          IN  /\ sender_result' = r[1]
              /\ sender_server' = r[2]
              /\ session_ok' = (session_ok \/ r[1] = "True")
    /\ sender_call' = "connect_smtp"
    /\ transmitted' = FALSE
    /\ UNCHANGED sender_config
    /\ UNCHANGED <<campaign_vars, resolver_vars, renderer_vars, connect_vars,
                   store_vars, tab_vars>>

\* send_email, lines 492-530: <<returned value, message handed over>>
send_email(held, accepted) ==
    IF held = "None" THEN <<"False", FALSE>>
    ELSE IF accepted THEN <<"True", TRUE>>
    ELSE <<"False", FALSE>>

SenderSendEmail ==
    /\ \E accepted \in BOOLEAN :
          LET r == send_email(sender_server, accepted)
          IN  /\ sender_result' = r[1]
              /\ transmitted' = r[2]
    /\ sender_call' = "send_email"
    /\ UNCHANGED <<sender_config, sender_server, session_ok>>
    /\ UNCHANGED <<campaign_vars, resolver_vars, renderer_vars, connect_vars,
                   store_vars, tab_vars>>

\* disconnect, lines 532-539: quit may raise, the bare except passes
disconnect(held) == "None"

SenderDisconnect ==
    /\ sender_server' = disconnect(sender_server)
    /\ session_ok' = FALSE
    /\ sender_call' = "disconnect"
    /\ sender_result' = "none"
    /\ transmitted' = FALSE
    /\ UNCHANGED sender_config
    /\ UNCHANGED <<campaign_vars, resolver_vars, renderer_vars, connect_vars,
                   store_vars, tab_vars>>

NextSender ==
    \/ SenderConnectSmtp
    \/ SenderSendEmail
    \/ SenderDisconnect

SpecSender == InitSender /\ [][NextSender]_vars

\* C29: send_email transmits a message only while a server session is held:
\* before a successful connect_smtp and after disconnect it returns False
\* without transmitting; disconnect always leaves the sender with no session.
C29_TransmitsOnlyInSession ==
    /\ (sender_call = "send_email" /\ ~session_ok)
          => (sender_result = "False" /\ ~transmitted)
    /\ sender_call = "disconnect" => sender_server = "None"

(***************************************************************************)
(* email_automation.py: the Start Sending handler of the Send Emails tab.  *)
(***************************************************************************)
\* str.format on the characters of a template, left to right: "{{" and "}}"
\* are literal braces, "{field}" is replaced by the keyword argument named
\* by the field up to its first ":", "!", "." or "[", and a name that is no
\* keyword, an attribute or an index of a value, a "{" without "}" and a
\* single "}" raise.  The result is <<"ok", text>> or <<"raise", <<>>>>.
\* (No template of the model carries a format specification after the name
\* of a keyword.)
prepend(text, formatted) ==
    IF formatted[1] = "ok" THEN <<"ok", text \o formatted[2]>> ELSE formatted

RECURSIVE format(_, _)
format(t, kw) ==
    IF t = <<>> THEN <<"ok", <<>>>>
    ELSE IF t[1] = "{" THEN
        IF Len(t) >= 2 /\ t[2] = "{"
        THEN prepend(<<"{">>, format(SubSeq(t, 3, Len(t)), kw))
        ELSE LET close == find(t, <<"}">>, 2) IN
             IF close = 0 THEN <<"raise", <<>>>>
             ELSE LET field == SubSeq(t, 2, close - 1)
                      stops == {p \in DOMAIN field : field[p] \in {":", "!", ".", "["}}
                      name  == IF stops = {} THEN field
                               ELSE SubSeq(field, 1, MinOf(stops) - 1)
                  IN  IF \/ name \notin DOMAIN kw
                         \/ \E p \in stops : field[p] \in {".", "["}
                      THEN <<"raise", <<>>>>
                      ELSE prepend(kw[name], format(SubSeq(t, close + 1, Len(t)), kw))
    ELSE IF t[1] = "}" THEN
        IF Len(t) >= 2 /\ t[2] = "}"
        THEN prepend(<<"}">>, format(SubSeq(t, 3, Len(t)), kw))
        ELSE <<"raise", <<>>>>
    ELSE prepend(<<t[1]>>, format(Tail(t), kw))

\* The keyword arguments of lines 934-944
format_kwargs(name, company, email) ==
    (NameKey :> name) @@ (CompanyKey :> company) @@ (EmailKey :> email)

MaxBatch == 3

\* recipients.json before the handler runs: user1@x.com, user2@x.com, ...,
\* added by add_recipient; the second was contacted by an earlier run.
UserAddr(k) == <<"u","s","e","r">> \o str(k) \o XCom

StoredBatch(n) ==
    [k \in 1..n |->
        [NewRecipient(UserAddr(k)) EXCEPT
            !.last_contacted = IF k = 2 THEN "earlier" ELSE ""]]

\* A template of placeholders only, one with a style sheet as the default
\* HTML template has, one with a placeholder that is no keyword, and one of
\* plain text.
TabTemplates ==
    { token(NameKey) \o <<" ","a","t"," ">> \o token(CompanyKey),
      SpacedStyleBlock \o token(NameKey),
      token(<<"p","h","o","n","e">>),
      <<"T","e","l",":"," ">> }

\* The two sliders of the configuration tab are independent
\* (min 10..120, max 30..300)
DelayChoices == { <<1, 1>>, <<1, 2>>, <<2, 1>> }

TabConfigs ==
    { [email |-> JohnAddr, password |-> SixteenChars, provider |-> "gmail"],
      [email |-> JohnAddr, password |-> SubSeq(SixteenChars, 1, 15), provider |-> "gmail"] }

InitSendTab ==
    /\ \E n \in 1..MaxBatch :
          /\ recipients_file = StoredBatch(n)
          /\ app_recipients = StoredBatch(n)
          /\ num_emails \in 1..n
    /\ manager_call = "none"
    /\ manager_result = "none"
    /\ sender_config \in TabConfigs
    /\ sender_server = "None"
    /\ session_ok = FALSE
    /\ sender_call = "none"
    /\ sender_result = "none"
    /\ transmitted = FALSE
    /\ tab_pc = "start"
    /\ config_delay \in DelayChoices
    /\ selected_template \in TabTemplates
    /\ tab_i = 0
    /\ tab_sent_count = 0
    /\ tab_failed_count = 0
    /\ counted_sent = {}
    /\ counted_failed = <<>>
    /\ transmitted_to = {}
    /\ render_failed = {}
    /\ slept_after = {}
    /\ unsaved = {}
    /\ CampaignIdle
    /\ ResolverIdle
    /\ RendererIdle
    /\ ConnectIdle

\* The for statement moves to the next recipient, or the loop is over
NextRecipient ==
    /\ tab_i' = tab_i + 1
    /\ tab_pc' = IF tab_i + 1 < num_emails THEN "render" ELSE "disconnect"

\* Lines 908-916: connect, and return when connect_smtp returned False
TabConnect ==
    /\ tab_pc = "start"
    /\ \E outcome_of_server \in ConnectOutcomes :
          LET r == connect_smtp(sender_config, sender_server, outcome_of_server)
          IN  /\ sender_result' = r[1]
              /\ sender_server' = r[2]
              /\ session_ok' = (session_ok \/ r[1] = "True")
              /\ tab_pc' = IF r[1] = "True" THEN "render" ELSE "returned"
    /\ sender_call' = "connect_smtp"
    /\ transmitted' = FALSE
    /\ UNCHANGED <<sender_config, app_recipients, num_emails, config_delay,
                   selected_template, tab_i, tab_sent_count, tab_failed_count,
                   counted_sent, counted_failed, transmitted_to, render_failed,
                   slept_after, unsaved>>
    /\ UNCHANGED <<campaign_vars, resolver_vars, renderer_vars, connect_vars,
                   store_vars>>

\* Lines 926-944 and 971-973: format the template inside the try; an
\* exception goes to the except clause, which counts and ends the iteration
TabRender ==
    /\ tab_pc = "render"
    /\ LET content == format(selected_template,
                             format_kwargs(<<>>, <<>>, sender_config.email))
       IN  IF content[1] = "raise"
           THEN /\ render_failed' = render_failed \cup {tab_i}
                /\ tab_failed_count' = tab_failed_count + 1
                /\ counted_failed' = Append(counted_failed, tab_i)
                /\ NextRecipient
           ELSE /\ tab_pc' = "send"
                /\ UNCHANGED <<render_failed, tab_failed_count, counted_failed, tab_i>>
    /\ UNCHANGED <<app_recipients, num_emails, config_delay, selected_template,
                   tab_sent_count, counted_sent, transmitted_to, slept_after,
                   unsaved>>
    /\ UNCHANGED <<campaign_vars, resolver_vars, renderer_vars, connect_vars,
                   store_vars, sender_vars>>

\* Lines 946-964: send_email, and on True the contact is recorded
TabSend ==
    /\ tab_pc = "send"
    /\ \E accepted \in BOOLEAN, writable \in BOOLEAN :
          LET r == send_email(sender_server, accepted)
              u == update_recipient(recipients_file, app_recipients[tab_i + 1].email,
                                    [last_contacted |-> "now"], writable)
          IN  /\ sender_result' = r[1]
              /\ transmitted' = r[2]
              /\ transmitted_to' = IF r[2] THEN transmitted_to \cup {tab_i}
                                   ELSE transmitted_to
              /\ IF r[1] = "True"
                 THEN /\ tab_sent_count' = tab_sent_count + 1
                      /\ counted_sent' = counted_sent \cup {tab_i}
                      /\ manager_call' = "update_recipient"
                      /\ manager_result' = u[1]
                      /\ recipients_file' = u[2]
                      /\ unsaved' = IF u[1] = "True" THEN unsaved
                                    ELSE unsaved \cup {tab_i}
                      /\ UNCHANGED <<tab_failed_count, counted_failed>>
                 ELSE /\ writable    \* nothing is saved on this branch
                      /\ tab_failed_count' = tab_failed_count + 1
                      /\ counted_failed' = Append(counted_failed, tab_i)
                      /\ UNCHANGED <<tab_sent_count, counted_sent, store_vars, unsaved>>
    /\ sender_call' = "send_email"
    /\ tab_pc' = "delay"
    /\ UNCHANGED <<sender_config, sender_server, session_ok>>
    /\ UNCHANGED <<app_recipients, num_emails, config_delay, selected_template,
                   tab_i, render_failed, slept_after>>
    /\ UNCHANGED <<campaign_vars, resolver_vars, renderer_vars, connect_vars>>

\* Lines 966-973: the delay between two emails; random.randint raises
\* ValueError on an empty range, inside the try
TabDelay ==
    /\ tab_pc = "delay"
    /\ IF tab_i < num_emails - 1
       THEN IF config_delay[1] > config_delay[2]
            THEN /\ tab_failed_count' = tab_failed_count + 1
                 /\ counted_failed' = Append(counted_failed, tab_i)
                 /\ UNCHANGED slept_after
            ELSE /\ slept_after' = slept_after \cup {tab_i}
                 /\ UNCHANGED <<tab_failed_count, counted_failed>>
       ELSE UNCHANGED <<tab_failed_count, counted_failed, slept_after>>
    /\ NextRecipient
    /\ UNCHANGED <<app_recipients, num_emails, config_delay, selected_template,
                   tab_sent_count, counted_sent, transmitted_to, render_failed,
                   unsaved>>
    /\ UNCHANGED <<campaign_vars, resolver_vars, renderer_vars, connect_vars,
                   store_vars, sender_vars>>

\* Lines 975-982: disconnect and the final status
TabDisconnect ==
    /\ tab_pc = "disconnect"
    /\ sender_server' = disconnect(sender_server)
    /\ session_ok' = FALSE
    /\ sender_call' = "disconnect"
    /\ sender_result' = "none"
    /\ transmitted' = FALSE
    /\ tab_pc' = "done"
    /\ UNCHANGED <<sender_config, app_recipients, num_emails, config_delay,
                   selected_template, tab_i, tab_sent_count, tab_failed_count,
                   counted_sent, counted_failed, transmitted_to, render_failed,
                   slept_after, unsaved>>
    /\ UNCHANGED <<campaign_vars, resolver_vars, renderer_vars, connect_vars,
                   store_vars>>

NextSendTab ==
    \/ TabConnect
    \/ TabRender
    \/ TabSend
    \/ TabDelay
    \/ TabDisconnect

SpecSendTab == InitSendTab /\ [][NextSendTab]_vars

\* How often failed_count was incremented for recipient k
TimesFailed(k) == Cardinality({p \in DOMAIN counted_failed : counted_failed[p] = k})

\* C23: when rendering the message for recipient i fails, nothing is
\* transmitted to recipient i, recipient i is counted as failed exactly once,
\* and the send loop continues with recipient i+1 including its pacing sleep;
\* the campaign is not aborted.
C23_RenderFailureKeepsPacing ==
    /\ \A k \in render_failed :
          /\ k \notin transmitted_to
          /\ k \notin counted_sent
          /\ TimesFailed(k) = 1
          /\ (k < tab_i /\ k < num_emails - 1 /\ config_delay[1] <= config_delay[2])
                => k \in slept_after
    /\ (tab_pc = "done" /\ render_failed # {}) => tab_i = num_emails

\* C26: when the send loop finishes over num_emails recipients,
\* sent_count + failed_count equals num_emails and no recipient has been
\* counted both as sent and as failed, for every outcome of the sends and
\* every accepted delay configuration.
C26_CountsAddUp ==
    tab_pc = "done"
        => /\ tab_sent_count + tab_failed_count = num_emails
           /\ counted_sent \cap Range(counted_failed) = {}

\* C25: during a run of the handler the status and last_contacted fields of
\* a record change only for a recipient whose send succeeded; a successful
\* send to a recipient records the contact on its record whenever
\* recipients.json could be written, and the records of the recipients that
\* were not attempted, and the number of records, stay as they were.
C25_ContactOnlyOnSentRecipient ==
    tab_pc # "idle"
        => /\ Len(recipients_file) = Len(app_recipients)
           /\ \A k \in DOMAIN recipients_file :
                 /\ recipients_file[k].email = app_recipients[k].email
                 /\ recipients_file[k].status = app_recipients[k].status
                 /\ recipients_file[k].last_contacted # app_recipients[k].last_contacted
                       => (k - 1) \in counted_sent
           /\ \A n \in counted_sent \ unsaved :
                 recipients_file[n + 1].last_contacted = "now"

C25_Witness ==
    /\ tab_pc = "done"
    /\ Len(recipients_file) = 3
    /\ num_emails = 2
    /\ counted_sent = {0}
    /\ unsaved = {}
    /\ recipients_file[1].last_contacted = "now"
    /\ recipients_file[2] = app_recipients[2]
    /\ recipients_file[3] = app_recipients[3]

====
